---- MODULE Spec2Model ----
(***************************************************************************)
(* Queue-based email extraction service (src/server.js, second program:    *)
(* lines 246-827).  The model covers the job record store (Supabase table  *)
(* email_scrap_jobs), the HTTP submit handler, the JobWorker pool (start,  *)
(* stop, poll loop, processNextBatch), processJob (the Crawl Session) with *)
(* its page handler and the shared request queue, and the poll handler.    *)
(*                                                                         *)
(* JavaScript runs one callback at a time; a step of the model is one      *)
(* stretch of code between two awaits.  Every await on the store or on     *)
(* the crawler is a suspension point, so other callbacks interleave there. *)
(***************************************************************************)
EXTENDS Integers, Sequences, FiniteSets, TLC

\* ---- bounds of the model ------------------------------------------------
\* Jobs submitted in a run of the server, and in a run of the pool driven by
\* arbitrary start() and stop() calls; poll loops alive at once; processJob
\* calls for a job_id that was processed before.
MaxJobs == 4
MaxPoolJobs == 2
MaxLoops == 2
MaxRelaunches == 1
\* Jobs submitted in a run that follows the crawl page by page, and in a run
\* that follows the HTTP exchanges of one client.
MaxCrawlJobs == 2
MaxApiJobs == 2
\* Jobs submitted in a run that follows link discovery over two sites, in a
\* run over a site larger than the page budget, and in a run that follows
\* the extractors over many page contents; the fixed paths link discovery
\* adds, of the six of the source.
MaxLinkJobs == 2
MaxBudgetJobs == 1
MaxExtractJobs == 1
MaxCommonPages == 1

\* ---- configuration (read from the environment, src/server.js:257-258) ----
\* The defaults are 4 and 5; the deployment modelled sets 2 and 3, which
\* keeps the batch larger than the slice as the defaults do.
MAX_CONCURRENT_WORKERS == 2
WORKER_BATCH_SIZE == 3

Loops == 1..MaxLoops

\* Request bodies a client may send: no url, a malformed one, a well-formed one.
Urls == {"", "not a url", "https://a.example/"}

\* The sites of the model.
Origins == {"https://a.example", "https://b.example", "https://c.example"}

\* The seed of a site: its home page.
Seed(origin) == origin \o "/"

\* new URL(url) throws on anything but a well-formed absolute URL.
ValidUrl(u) == u \in {Seed(o) : o \in Origins}

\* new URL(currentUrl).origin
Origin(url) == CHOOSE o \in Origins : SubSeq(url, 1, Len(o)) = o

\* maxRequestsPerCrawl and maxConcurrency of every crawler
maxRequestsPerCrawl == 20
maxConcurrency == 2

VARIABLES
  jobs,        \* the table email_scrap_jobs: a sequence of rows, row i has job_id i
  requestQueue, \* the queue 'email-extraction-queue': its requests, oldest first
  http,        \* the last exchange of the client whose requests are followed
  isRunning,   \* JobWorker.isRunning
  activeJobs,  \* JobWorker.activeJobs
  loopPc,      \* per poll loop (one per start() that passed the guard): where it waits
  queuedJobs,  \* per poll loop: the rows its pending select returned
  sessions,    \* the processJob calls in flight
  launches,    \* per job_id: how many times processJob was called for it (history)
  exited       \* process.exit(0) has run

vars == <<jobs, requestQueue, http, isRunning, activeJobs, loopPc, queuedJobs, sessions,
          launches, exited>>

Min(a, b) == IF a < b THEN a ELSE b

\* ---- the store ------------------------------------------------------------

\* A result column (a JSON array or a number) holds null or a value.
Null == <<>>
Val(v) == <<v>>

\* column || dflt as GET /job reads a result column: null gives dflt (so does
\* 0, the only other falsy value a result column holds, read with dflt 0).
OrElse(column, dflt) == IF column = Null THEN dflt ELSE column[1]

\* Mutant of NewRow: the record is created as processing.
NewRowProcessing(jobId, url, now) ==
  [job_id |-> jobId, url |-> url, status |-> "processing", created_at |-> now,
   started_at |-> "null", completed_at |-> "null", error |-> "null",
   emails |-> Null, facebook_urls |-> Null, crawled_urls |-> Null,
   pages_crawled |-> Null, retry_count |-> "default", max_retries |-> "default"]

\* .insert({job_id, url, status: 'queued'}); the table stamps created_at with
\* the insertion time (a strictly increasing clock) and leaves every column
\* the insert does not name at its default: null, and the retry budget of
\* the schema.
NewRow(jobId, url, now) ==
  [job_id |-> jobId, url |-> url, status |-> "queued", created_at |-> now,
   started_at |-> "null", completed_at |-> "null", error |-> "null",
   emails |-> Null, facebook_urls |-> Null, crawled_urls |-> Null,
   pages_crawled |-> Null, retry_count |-> "default", max_retries |-> "default"]

\* Mutant of Patch: the write replaces the row, the url is not carried over.
PatchLosesUrl(row, updateData) ==
  [f \in DOMAIN row |-> IF f \in DOMAIN updateData THEN updateData[f]
                        ELSE IF f = "url" THEN "" ELSE row[f]]

\* The columns of row that the object written by .update() replaces.
Patch(row, updateData) ==
  [f \in DOMAIN row |-> IF f \in DOMAIN updateData THEN updateData[f] ELSE row[f]]

\* Mutant of UpdateData: status left out of the update.
UpdateDataLosesStatus(row, status, updates) ==
  LET r1 == Patch(row, updates)
      r2 == IF status = "processing" /\ "started_at" \notin DOMAIN updates
            THEN [r1 EXCEPT !.started_at = "set"] ELSE r1
      r3 == IF status \in {"done", "error"} THEN [r2 EXCEPT !.completed_at = "set"] ELSE r2
  IN r3

\* updateJobStatus: the row after .update({status, ...updates}) with
\* started_at stamped on processing and completed_at on done and error.
UpdateData(row, status, updates) ==
  LET r1 == Patch([row EXCEPT !.status = status], updates)
      r2 == IF status = "processing" /\ "started_at" \notin DOMAIN updates
            THEN [r1 EXCEPT !.started_at = "set"] ELSE r1
      r3 == IF status \in {"done", "error"} THEN [r2 EXCEPT !.completed_at = "set"] ELSE r2
  IN r3

updateJobStatus(jobId, status, updates) ==
  [jobs EXCEPT ![jobId] = UpdateData(jobs[jobId], status, updates)]

RECURSIVE SortNewestFirst(_, _)
\* Mutant of SortByCreatedAt: {ascending: false}.
SortNewestFirst(S, js) ==
  IF S = {} THEN <<>>
  ELSE LET m == CHOOSE i \in S : \A k \in S : js[i].created_at >= js[k].created_at
       IN <<m>> \o SortNewestFirst(S \ {m}, js)

RECURSIVE SortByCreatedAt(_, _)
\* .order('created_at', {ascending: true}) over a set of row indices
SortByCreatedAt(S, js) ==
  IF S = {} THEN <<>>
  ELSE LET m == CHOOSE i \in S : \A k \in S : js[i].created_at <= js[k].created_at
       IN <<m>> \o SortByCreatedAt(S \ {m}, js)

\* Array.prototype.slice(0, n) and SQL LIMIT n
Take(seq, n) == SubSeq(seq, 1, Min(n, Len(seq)))

\* .eq('status','queued').order('created_at').limit(WORKER_BATCH_SIZE)
SelectQueued(js) ==
  LET ids == SortByCreatedAt({i \in DOMAIN js : js[i].status = "queued"}, js)
      lim == Take(ids, WORKER_BATCH_SIZE)
  IN [k \in 1..Len(lim) |-> [job_id |-> js[lim[k]].job_id, url |-> js[lim[k]].url]]

\* ---- initial state ----------------------------------------------------------

\* No exchange of the followed client yet.
NoExchange == [seq |-> 0, op |-> "none", arg |-> [none |-> TRUE], code |-> 0, body |-> [none |-> TRUE]]

Init ==
  /\ jobs = <<>>
  /\ requestQueue = <<>>
  /\ http = NoExchange
  /\ isRunning = FALSE
  /\ activeJobs = {}
  /\ loopPc = [l \in Loops |-> "idle"]
  /\ queuedJobs = [l \in Loops |-> <<>>]
  /\ sessions = {}
  /\ launches = [j \in 1..MaxJobs |-> 0]
  /\ exited = FALSE

\* ---- the request queue ---------------------------------------------------------

\* The queue holds every request ever added, in the order of addition, with
\* its state: pending, locked (fetched by a crawler, its handler running) or
\* handled.  The uniqueKey of a request is its url.
Known(queue) == {queue[k].url : k \in 1..Len(queue)}

\* The urls of the requests of queue in state st.
InState(queue, st) == {queue[k].url : k \in {i \in 1..Len(queue) : queue[i].state = st}}

\* addRequest: a url whose uniqueKey the queue has seen is not added again.
AddRequest(queue, url) ==
  IF url \in Known(queue) THEN queue ELSE Append(queue, [url |-> url, state |-> "pending"])

RECURSIVE AddRequests(_, _)
\* addRequests: one addRequest per url, in order.
AddRequests(queue, urls) ==
  IF urls = <<>> THEN queue ELSE AddRequests(AddRequest(queue, Head(urls)), Tail(urls))

\* The queue with the request of url moved to state st (fetchNextRequest
\* locks, markRequestHandled marks handled).
SetState(queue, url, st) ==
  [k \in 1..Len(queue) |->
     IF queue[k].url = url THEN [queue[k] EXCEPT !.state = st] ELSE queue[k]]

\* fetchNextRequest: the oldest pending request, if any.
OldestPending(queue) ==
  LET idx == {k \in 1..Len(queue) : queue[k].state = "pending"}
  IN IF idx = {} THEN {} ELSE {queue[CHOOSE k \in idx : \A i \in idx : k <= i].url}

\* ---- POST /extract-emails ---------------------------------------------------

\* The handler: 400 on a missing or malformed url; otherwise createJob under a
\* fresh uuid (the insert may fail: 500, no row), then requestQueue.addRequest
\* (it may fail: 500, the row stays) and the 200 answer.  Rows are numbered in
\* the order of their insertion, so the fresh id is the next number.  cap
\* bounds the number of rows of the run.
\* Mutant of PostExtractEmails: the url is validated after createJob.
PostExtractEmailsValidatesLate(url, storeOk, queueOk, cap) ==
  IF url = "" \/ ~storeOk
  THEN UNCHANGED <<jobs, requestQueue>>
  ELSE /\ Len(jobs) < cap
       /\ jobs' = Append(jobs, NewRow(Len(jobs) + 1, url, Len(jobs) + 1))
       /\ requestQueue' = IF queueOk /\ ValidUrl(url)
                          THEN AddRequest(requestQueue, url) ELSE requestQueue

\* storeOk and queueOk tell whether the insert and addRequest succeed.
PostExtractEmails(url, storeOk, queueOk, cap) ==
  IF url = "" \/ ~ValidUrl(url) \/ ~storeOk
  THEN UNCHANGED <<jobs, requestQueue>>
  ELSE /\ Len(jobs) < cap
       /\ jobs' = Append(jobs, NewRow(Len(jobs) + 1, url, Len(jobs) + 1))
       /\ requestQueue' = IF queueOk THEN AddRequest(requestQueue, url) ELSE requestQueue

\* The answer of the handler; jobId is the fresh uuid.
PostResponse(url, storeOk, queueOk, jobId) ==
  IF url = "" THEN [code |-> 400, body |-> [error |-> "URL is required"]]
  ELSE IF ~ValidUrl(url) THEN [code |-> 400, body |-> [error |-> "Invalid URL format"]]
  ELSE IF ~storeOk \/ ~queueOk
  THEN [code |-> 500, body |-> [error |-> "Internal server error",
                                 message |-> "Failed to queue the job"]]
  ELSE [code |-> 200, body |-> [job_id |-> jobId, status |-> "queued", url |-> url]]

\* The exchange the followed client sees after request op(arg) got answer r.
Exchange(op, arg, r) ==
  [seq |-> 1 - http.seq, op |-> op, arg |-> arg, code |-> r.code, body |-> r.body]

\* A request, with a body of urls, of a client whose exchanges are not
\* followed.
SubmitOf(urls, cap) ==
  /\ ~exited
  /\ \E url \in urls : \E storeOk, queueOk \in BOOLEAN :
       PostExtractEmails(url, storeOk, queueOk, cap)
  /\ UNCHANGED <<http, isRunning, activeJobs, loopPc, queuedJobs, sessions, launches, exited>>

Submit(cap) == SubmitOf(Urls, cap)

\* A request with a well-formed url of urls that the store and the queue
\* accept.
SubmitSeed(urls, cap) ==
  /\ ~exited
  /\ \E url \in urls : PostExtractEmails(url, TRUE, TRUE, cap)
  /\ UNCHANGED <<http, isRunning, activeJobs, loopPc, queuedJobs, sessions, launches, exited>>

\* A request of the followed client.
TracedSubmit(cap) ==
  /\ ~exited
  /\ \E url \in Urls : \E storeOk, queueOk \in BOOLEAN :
       /\ PostExtractEmails(url, storeOk, queueOk, cap)
       /\ http' = Exchange("submit", [url |-> url], PostResponse(url, storeOk, queueOk, Len(jobs) + 1))
  /\ UNCHANGED <<isRunning, activeJobs, loopPc, queuedJobs, sessions, launches, exited>>

\* ---- GET /job/:jobId -----------------------------------------------------------

\* getJob: .select('*').eq('job_id', jobId).single() answers with an error
\* unless exactly one row matches, and getJob throws every error.
getJob(js, jobId, storeOk) ==
  LET rows == {i \in DOMAIN js : js[i].job_id = jobId}
  IN IF storeOk /\ Cardinality(rows) = 1
     THEN [thrown |-> FALSE, data |-> js[CHOOSE i \in rows : TRUE]]
     ELSE [thrown |-> TRUE, data |-> Null]

\* The job object of the answer.
Snapshot(job) ==
  [job_id |-> job.job_id, url |-> job.url, status |-> job.status,
   emails |-> OrElse(job.emails, <<>>),
   facebook_urls |-> OrElse(job.facebook_urls, <<>>),
   crawled_urls |-> OrElse(job.crawled_urls, <<>>),
   pages_crawled |-> OrElse(job.pages_crawled, 0),
   error |-> job.error, created_at |-> job.created_at,
   started_at |-> job.started_at, completed_at |-> job.completed_at]

\* The answer of the handler: 500 when getJob throws, 404 when it returns
\* nothing, the snapshot otherwise.
GetResponse(js, jobId, storeOk) ==
  LET job == getJob(js, jobId, storeOk)
  IN IF job.thrown
     THEN [code |-> 500, body |-> [error |-> "Internal server error",
                                   message |-> "Failed to retrieve job information"]]
     ELSE IF job.data = Null THEN [code |-> 404, body |-> [error |-> "Job not found"]]
     ELSE [code |-> 200, body |-> Snapshot(job.data)]

\* An id no submit has issued.
UnknownId == 0

\* The ids the followed client polls.
PollIds == (1..MaxApiJobs) \cup {UnknownId}

\* The followed client polls; the handler writes nothing.
Poll ==
  /\ ~exited
  /\ \E jobId \in PollIds : \E storeOk \in BOOLEAN :
       http' = Exchange("poll", [jobId |-> jobId], GetResponse(jobs, jobId, storeOk))
  /\ UNCHANGED <<jobs, requestQueue, isRunning, activeJobs, loopPc, queuedJobs, sessions,
                 launches, exited>>

\* ---- GET /health -----------------------------------------------------------------

\* The answer of the handler: the state of the pool.
HealthResponse(running, active) ==
  [code |-> 200,
   body |-> [status |-> "healthy",
             worker_status |-> IF running THEN "running" ELSE "stopped",
             active_jobs |-> Cardinality(active)]]

\* The followed client asks for the health of the server; the handler reads
\* the pool and writes nothing.
Health ==
  /\ ~exited
  /\ http' = Exchange("health", [none |-> TRUE], HealthResponse(isRunning, activeJobs))
  /\ UNCHANGED <<jobs, requestQueue, isRunning, activeJobs, loopPc, queuedJobs, sessions,
                 launches, exited>>

\* ---- JobWorker ---------------------------------------------------------------

\* The lowest free loop slot: the loop a start() call that passes the guard runs.
FreeLoop == CHOOSE l \in Loops : loopPc[l] = "idle" /\ \A k \in Loops : loopPc[k] = "idle" => l <= k

\* start(): returns at once when isRunning; otherwise sets the flag, enters the
\* while loop and runs processNextBatch up to its first await (the select).
Start ==
  /\ ~exited
  /\ IF isRunning
     THEN UNCHANGED vars
     ELSE /\ \E l \in Loops : loopPc[l] = "idle"
          /\ isRunning' = TRUE
          /\ loopPc' = [loopPc EXCEPT ![FreeLoop] = "select"]
          /\ UNCHANGED <<jobs, requestQueue, http, activeJobs, queuedJobs, sessions,
                         launches, exited>>

\* stop(): clears the flag and nothing else.
Stop ==
  /\ ~exited
  /\ isRunning' = FALSE
  /\ UNCHANGED <<jobs, requestQueue, http, activeJobs, loopPc, queuedJobs, sessions,
                 launches, exited>>

\* SIGINT / SIGTERM: await jobWorker.stop(); process.exit(0).  The process
\* and everything it held in memory (poll loops, sessions in flight, the
\* active set) are gone; the table and the stored queue stay as they are.
Signal ==
  /\ ~exited
  /\ isRunning' = FALSE
  /\ exited' = TRUE
  /\ activeJobs' = {}
  /\ loopPc' = [l \in Loops |-> "idle"]
  /\ queuedJobs' = [l \in Loops |-> <<>>]
  /\ sessions' = {}
  /\ UNCHANGED <<jobs, requestQueue, http, launches>>

\* The wait of the loop of start() after a cycle: setTimeout 5000 in its
\* catch block when processNextBatch threw, setTimeout 2000 when it returned.
Wait(threw) == IF threw THEN "backoff" ELSE "sleep"

\* processNextBatch throws: never, its whole body is inside a try whose catch
\* block logs and returns.
Throws(failed) == FALSE

\* The store answers the pending select of loop l with the rows it holds now.
StoreSelect(l) ==
  /\ ~exited
  /\ loopPc[l] = "select"
  /\ queuedJobs' = [queuedJobs EXCEPT ![l] = SelectQueued(jobs)]
  /\ loopPc' = [loopPc EXCEPT ![l] = "selected"]
  /\ UNCHANGED <<jobs, requestQueue, http, isRunning, activeJobs, sessions, launches, exited>>

\* The select answers with an error (or throws): processNextBatch logs and
\* returns, start() goes to its wait.
StoreSelectFails(l) ==
  /\ ~exited
  /\ loopPc[l] = "select"
  /\ loopPc' = [loopPc EXCEPT ![l] = Wait(Throws(TRUE))]
  /\ UNCHANGED <<jobs, requestQueue, http, isRunning, activeJobs, queuedJobs, sessions,
                 launches, exited>>

\* Mutant of Slice: no slice, the whole batch is mapped.
SliceAll(rows) == rows

\* Mutant of Slice: slice(1, MAX_CONCURRENT_WORKERS), the first row is dropped.
SliceFromSecond(rows) == SubSeq(rows, 2, Min(MAX_CONCURRENT_WORKERS, Len(rows)))

\* queuedJobs.slice(0, MAX_CONCURRENT_WORKERS)
Slice(rows) == Take(rows, MAX_CONCURRENT_WORKERS)

\* Mutant of AlreadyActive: the check is missing.
NeverActive(active, jobId) == FALSE

\* this.activeJobs.has(job.job_id)
AlreadyActive(active, jobId) == jobId \in active

\* The rows of the slice whose map callback goes on to processJob.
ToLaunch(rows, active) ==
  SelectSeq(Slice(rows), LAMBDA r : ~AlreadyActive(active, r.job_id))

RECURSIVE Sum(_, _)
Sum(f, S) == IF S = {} THEN 0 ELSE LET x == CHOOSE x \in S : TRUE IN f[x] + Sum(f, S \ {x})

\* processJob calls made so far, and those made for a job_id that had
\* been processed before.
Launched(n) == Sum(n, 1..MaxJobs)
Relaunched(n) == Sum([j \in 1..MaxJobs |-> IF n[j] > 1 THEN n[j] - 1 ELSE 0], 1..MaxJobs)

\* processNextBatch after the select has answered: the map callbacks run one
\* after the other up to their first await, so every launch of the cycle (add
\* to activeJobs, call processJob, send the processing write) is in this step.
\* With nothing launched Promise.all resolves at once and the loop sleeps.
HandleBatch(l) ==
  /\ ~exited
  /\ loopPc[l] = "selected"
  /\ LET new == ToLaunch(queuedJobs[l], activeJobs)
     IN /\ launches' = [j \in 1..MaxJobs |->
             launches[j] + Cardinality({k \in 1..Len(new) : new[k].job_id = j})]
        /\ Relaunched(launches') <= MaxRelaunches
        /\ sessions' = sessions \cup
             {[job |-> new[k].job_id, url |-> new[k].url, call |-> launches'[new[k].job_id],
               pc |-> "w_processing", owner |-> l, err |-> "none",
               extractedEmails |-> <<>>, extractedFacebookUrls |-> <<>>,
               visitedUrls |-> <<>>, handled |-> 0, running |-> {}] : k \in 1..Len(new)}
        /\ activeJobs' = activeJobs \cup {new[k].job_id : k \in 1..Len(new)}
        /\ loopPc' = [loopPc EXCEPT ![l] = IF Len(new) = 0 THEN Wait(Throws(FALSE))
                                           ELSE "await_all"]
  /\ queuedJobs' = [queuedJobs EXCEPT ![l] = <<>>]
  /\ UNCHANGED <<jobs, requestQueue, http, isRunning, exited>>

\* Mutant of LoopContinues: while (!this.isRunning).
LoopInverted(running) == ~running

\* while (this.isRunning), evaluated when a sleep ends.
LoopContinues(running) == running

\* The sleep of loop l ends: another cycle, or the loop returns.
Wake(l) ==
  /\ ~exited
  /\ loopPc[l] \in {"sleep", "backoff"}
  /\ loopPc' = [loopPc EXCEPT ![l] = IF LoopContinues(isRunning) THEN "select" ELSE "idle"]
  /\ UNCHANGED <<jobs, requestQueue, http, isRunning, activeJobs, queuedJobs, sessions,
                 launches, exited>>

\* ---- processJob ---------------------------------------------------------------

\* A processJob call in flight is a record: job and url (its arguments), call
\* (the how-manieth call for that job_id it is), pc (the await it is suspended
\* at), owner (the poll loop whose Promise.all still waits for it, 0 when
\* none does), err (the error its catch block caught), the accumulators
\* extractedEmails, extractedFacebookUrls and visitedUrls (a Set, kept in
\* insertion order), handled (the requests its crawler has finished) and
\* running (the requests its crawler has fetched and not finished, each with
\* the content the page load gave).
Goto(s, pc, err) == (sessions \ {s}) \cup {[s EXCEPT !.pc = pc, !.err = err]}

\* The promise of session s settles: the finally block deletes the id from
\* activeJobs.  Promise.all of the owning cycle rejects with the first
\* rejection (the other sessions of the cycle run on, detached) and fulfils
\* when its last session fulfils; either way processNextBatch returns
\* normally (a rejection is caught by its catch block) and the loop waits.
Settle(s, rejected) ==
  LET l == s.owner
      rest == {t \in sessions \ {s} : t.owner = l}
      detach(t) == IF rejected /\ l # 0 /\ t.owner = l THEN [t EXCEPT !.owner = 0] ELSE t
  IN /\ activeJobs' = activeJobs \ {s.job}
     /\ sessions' = {detach(t) : t \in sessions \ {s}}
     /\ loopPc' = IF l # 0 /\ (rejected \/ rest = {})
                  THEN [loopPc EXCEPT ![l] = Wait(Throws(rejected))]
                  ELSE loopPc

At(s, pc) == ~exited /\ s.pc = pc

\* await updateJobStatus(jobId, 'processing') succeeds; crawler.run([url])
\* starts and adds the seed to the queue of the crawler, the shared one.
MarkProcessing(s) ==
  /\ At(s, "w_processing")
  /\ jobs' = updateJobStatus(s.job, "processing", <<>>)
  /\ requestQueue' = AddRequest(requestQueue, s.url)
  /\ sessions' = Goto(s, "crawler_run", "none")
  /\ UNCHANGED <<http, isRunning, activeJobs, loopPc, queuedJobs, launches, exited>>

\* The processing write throws: the catch block sends the error write.
MarkProcessingFails(s) ==
  /\ At(s, "w_processing")
  /\ sessions' = Goto(s, "w_error", "StoreError")
  /\ UNCHANGED <<jobs, requestQueue, http, isRunning, activeJobs, loopPc, queuedJobs,
                 launches, exited>>

\* The elements of a sequence.
Range(seq) == {seq[k] : k \in 1..Len(seq)}

RECURSIVE Dedupe(_)
\* [...new Set(array)]: the first occurrence of every element, in order.
Dedupe(seq) ==
  IF seq = <<>> THEN <<>>
  ELSE LET init == Dedupe(SubSeq(seq, 1, Len(seq) - 1))
           last == seq[Len(seq)]
       IN IF last \in Range(init) THEN init ELSE Append(init, last)

\* The content of a page, as far as the extractors read it: its mailto:
\* hrefs, the addresses in its text and the places where a facebook host is
\* written, in page order.
Mailto(v) == [tag |-> "mailto", v |-> v]
Text(v) == [tag |-> "text", v |-> v]
Facebook(link) == [tag |-> "facebook", link |-> link]

\* A place where the host facebook.com is written: the scheme and the www.
\* written before it ("" when absent) and the path segments written after it.
Link(scheme, www, segments) ==
  [scheme |-> scheme, www |-> www, host |-> "facebook.com", segments |-> segments]

RECURSIVE Path(_)
\* The segments of a path, each behind its slash.
Path(segments) ==
  IF segments = <<>> THEN "" ELSE "/" \o Head(segments) \o Path(Tail(segments))

\* The text of a link.
Href(link) == link.scheme \o link.www \o link.host \o Path(link.segments)

\* The contents a page visit may find.
Htmls ==
  { <<>>,
    <<Mailto("a@x.com"), Text("a@x.com")>>,
    <<Facebook(Link("", "", <<"acme.page">>)), Facebook(Link("", "", <<"login">>))>>,
    <<Text("b@x.com"), Facebook(Link("", "", <<"acme.page">>))>> }

\* The values of the tokens of html that carry tag, in page order.
Matches(html, tag) ==
  LET hits == SelectSeq(html, LAMBDA t : t.tag = tag)
  IN [k \in 1..Len(hits) |-> hits[k].v]

\* extractEmails: the mailto: matches, then the matches in the text, without
\* duplicates.  Both regular expressions are created by the call.
extractEmails(html) == Dedupe(Matches(html, "mailto") \o Matches(html, "text"))

\* facebookRegex (flags gi) matches an optional scheme, an optional www., the
\* host, a slash and a first segment of two characters or more with the
\* segments that follow; a host with no such path is no match.  The match
\* ends with the last character of a segment.
FacebookRegex(link) == link.segments # <<>> /\ Len(link.segments[1]) >= 2

\* url.replace(/^https?:\/\//, '').replace(/^www\./, ''): both patterns are
\* case-sensitive and anchored, so www. goes only when it starts what the
\* first replace left.  (No match ends with a slash or holds a backslash:
\* the two replaces that follow change nothing.)
CleanUrl(link) ==
  LET noScheme == IF link.scheme \in {"http://", "https://"}
                  THEN [link EXCEPT !.scheme = ""] ELSE link
  IN IF noScheme.scheme = "" /\ noScheme.www = "www."
     THEN [noScheme EXCEPT !.www = ""] ELSE noScheme

\* cleanUrl.split('/')[1] || '': the first segment, or the empty piece
\* between the two slashes of a scheme that was not removed.
PathPart(clean) == IF clean.scheme # "" THEN "" ELSE clean.segments[1]

skipPatterns ==
  {"home", "login", "register", "help", "privacy", "terms", "cookies", "settings"}

\* String.prototype.toLowerCase on the segments of the model.
ToLowerCase(str) ==
  CASE str = "Login" -> "login"
    [] str = "HELP" -> "help"
    [] OTHER -> str

\* Mutant of Keeps: skipPatterns.includes(pathPart).
KeepsCaseSensitive(link) ==
  LET cleanUrl == CleanUrl(link)
      pathPart == PathPart(cleanUrl)
  IN /\ Len(pathPart) >= 2
     /\ pathPart \notin skipPatterns
     /\ cleanUrl.scheme = ""

\* The filter callback: the first segment is long enough and no skip
\* pattern and cleanUrl holds no '//' (it does when its scheme stayed).
Keeps(link) ==
  LET cleanUrl == CleanUrl(link)
      pathPart == PathPart(cleanUrl)
  IN /\ Len(pathPart) >= 2
     /\ ToLowerCase(pathPart) \notin skipPatterns
     /\ cleanUrl.scheme = ""

\* The map callback: url.replace(/\\+/g, '').replace(/\/+$/, ''), which
\* leaves a match as it is.
FinalUrl(link) == Href(link)

\* The facebook links written in html, in page order.
Written(html) ==
  LET hits == SelectSeq(html, LAMBDA t : t.tag = "facebook")
  IN [k \in 1..Len(hits) |-> hits[k].link]

\* extractFacebookUrls: the matches that pass the filter, mapped, without
\* duplicates.
extractFacebookUrls(html) ==
  LET facebookUrls == SelectSeq(Written(html), FacebookRegex)
      filteredUrls == SelectSeq(facebookUrls, Keeps)
  IN Dedupe([k \in 1..Len(filteredUrls) |-> FinalUrl(filteredUrls[k])])

\* ---- the sites crawled ----------------------------------------------------------

\* Page k of the site c.example.
CPage(k) == "https://c.example/p" \o ToString(k)

\* The pages of c.example form a chain longer than the page budget: each
\* links to the next, and two pages near the budget link to two pages each.
Fork == maxRequestsPerCrawl - 3
ChainLinks(k) ==
  IF k < Fork THEN <<CPage(k + 1)>>
  ELSE IF k = Fork THEN <<CPage(k + 1), CPage(k + 2)>>
  ELSE IF k = Fork + 1 THEN <<CPage(k + 2), CPage(k + 3)>>
  ELSE <<>>

\* The document of a page as link discovery reads it: the hrefs of the
\* anchors inside its navigation regions (nav a, header a, ...) and the hrefs
\* of all its anchors, in document order.  The home page of a.example
\* links, from its navigation, to its about page and back; that of
\* b.example has no navigation link, a link to the other site and one to
\* its blog.  A url no site serves has neither.
Site(url) ==
  CASE url = "https://a.example/" ->
         [nav |-> <<"https://a.example/about/">>,
          anchors |-> <<"https://a.example/about/">>]
    [] url = "https://a.example/about/" ->
         [nav |-> <<"https://a.example/">>, anchors |-> <<"https://a.example/">>]
    [] url = "https://b.example/" ->
         [nav |-> <<>>,
          anchors |-> <<"https://a.example/about/", "https://b.example/blog">>]
    [] url = "https://c.example/" ->
         [nav |-> <<CPage(1)>>, anchors |-> <<CPage(1)>>]
    [] \E k \in 1..(Fork + 4) : url = CPage(k) ->
         [nav |-> <<>>,
          anchors |-> ChainLinks(CHOOSE k \in 1..(Fork + 4) : url = CPage(k))]
    [] OTHER -> [nav |-> <<>>, anchors |-> <<>>]

\* ---- link discovery --------------------------------------------------------------

\* The fixed paths pushed to navLinks, the first MaxCommonPages of them.
commonPages ==
  Take(<<"/about/", "/contact/", "/about", "/contact", "/about-us/", "/contact-us/">>,
       MaxCommonPages)

\* navLinks when enqueueLinks is called with it: the hrefs of the navigation
\* regions, then the fixed paths resolved against the origin of the page.
NavLinks(url) ==
  Site(url).nav \o [k \in 1..Len(commonPages) |-> Origin(url) \o commonPages[k]]

\* limit of the two enqueueLinks calls
NavLimit == 15
FallbackLimit == 5

\* enqueueLinks({urls, strategy: 'same-domain', limit}) from the page url:
\* the urls of the domain of the page, the first limit of them, are added.
EnqueueLinks(queue, url, urls, limit) ==
  AddRequests(queue, Take(SelectSeq(urls, LAMBDA u : Origin(u) = Origin(url)), limit))

\* Mutant of Discovered: the fallback call comes first.
DiscoveredFallbackFirst(queue, ctx, navThrown) ==
  LET q1 == EnqueueLinks(queue, ctx.url, Site(ctx.url).anchors, FallbackLimit)
  IN IF ctx.kind = "page" /\ ~navThrown
     THEN EnqueueLinks(q1, ctx.url, NavLinks(ctx.url), NavLimit)
     ELSE q1

\* The queue after the link discovery of requestHandler: with a rendered
\* page, and unless collecting or enqueueing them throws (caught and
\* logged), navLinks is enqueued; then, whatever the content, the anchors of
\* the page are (the fallback call, taken to succeed).
Discovered(queue, ctx, navThrown) ==
  LET q1 == IF ctx.kind = "page" /\ ~navThrown
            THEN EnqueueLinks(queue, ctx.url, NavLinks(ctx.url), NavLimit)
            ELSE queue
  IN EnqueueLinks(q1, ctx.url, Site(ctx.url).anchors, FallbackLimit)

\* ---- the crawler -----------------------------------------------------------------

\* Mutant of Extracted: the facebook urls of a page are extracted whatever
\* the emails found on it.
ExtractedBoth(s, url, html, thrown) ==
  IF url \in Range(s.visitedUrls)
  THEN s
  ELSE LET emails == IF thrown THEN <<>> ELSE extractEmails(html)
           facebookUrls == IF ~thrown THEN extractFacebookUrls(html) ELSE <<>>
       IN [s EXCEPT !.visitedUrls = Append(@, url),
                    !.extractedEmails = @ \o emails,
                    !.extractedFacebookUrls = @ \o facebookUrls]

\* Mutant of Extracted: an address the session holds already is not pushed.
ExtractedNewOnly(s, url, html, thrown) ==
  IF url \in Range(s.visitedUrls)
  THEN s
  ELSE LET emails == IF thrown THEN <<>>
                     ELSE SelectSeq(extractEmails(html),
                                    LAMBDA e : e \notin Range(s.extractedEmails))
           facebookUrls == IF ~thrown /\ Len(emails) = 0
                           THEN extractFacebookUrls(html) ELSE <<>>
       IN [s EXCEPT !.visitedUrls = Append(@, url),
                    !.extractedEmails = @ \o emails,
                    !.extractedFacebookUrls = @ \o facebookUrls]

\* The session after requestHandler ran for url: nothing when the url was
\* visited; otherwise the url is added to visitedUrls and, unless reading
\* the page throws (caught and logged), the emails of the page are pushed
\* and, when there are none, its facebook urls.  Rendered and raw content
\* are read alike.
Extracted(s, url, html, thrown) ==
  IF url \in Range(s.visitedUrls)
  THEN s
  ELSE LET emails == IF thrown THEN <<>> ELSE extractEmails(html)
           facebookUrls == IF ~thrown /\ Len(emails) = 0
                           THEN extractFacebookUrls(html) ELSE <<>>
       IN [s EXCEPT !.visitedUrls = Append(@, url),
                    !.extractedEmails = @ \o emails,
                    !.extractedFacebookUrls = @ \o facebookUrls]

\* Mutant of Fetchable: the crawler has no page budget.
FetchableNoBudget(s) ==
  IF Cardinality(s.running) < maxConcurrency THEN OldestPending(requestQueue) ELSE {}

\* The request of the shared queue the crawler of s may fetch next: none
\* when it has finished maxRequestsPerCrawl requests or maxConcurrency of
\* them are running.
Fetchable(s) ==
  IF s.handled < maxRequestsPerCrawl /\ Cardinality(s.running) < maxConcurrency
  THEN OldestPending(requestQueue) ELSE {}

\* What a page load gives requestHandler: page (rendered) or response only.
Kinds == {"page", "response"}

\* The crawler of s fetches the next request and the page loads, the seed
\* with a content of seedHtmls, any other page with one of otherHtmls:
\* requestHandler is called.
FetchRequest(s, seedHtmls, otherHtmls) ==
  /\ At(s, "crawler_run")
  /\ \E url \in Fetchable(s) : \E kind \in Kinds :
     \E html \in (IF url = s.url THEN seedHtmls ELSE otherHtmls) :
       /\ sessions' = (sessions \ {s}) \cup
            {[s EXCEPT !.running = @ \cup {[url |-> url, html |-> html, kind |-> kind]}]}
       /\ requestQueue' = SetState(requestQueue, url, "locked")
  /\ UNCHANGED <<jobs, http, isRunning, activeJobs, loopPc, queuedJobs, launches, exited>>

\* requestHandler runs for a request of s: extraction, then link discovery;
\* it returns and the crawler marks the request handled.
RequestHandler(s) ==
  /\ At(s, "crawler_run")
  /\ \E ctx \in s.running : \E thrown, navThrown \in BOOLEAN :
       /\ sessions' = (sessions \ {s}) \cup
            {[Extracted(s, ctx.url, ctx.html, thrown)
                EXCEPT !.handled = @ + 1, !.running = @ \ {ctx}]}
       /\ requestQueue' = SetState(Discovered(requestQueue, ctx, navThrown),
                                   ctx.url, "handled")
  /\ UNCHANGED <<jobs, http, isRunning, activeJobs, loopPc, queuedJobs, launches, exited>>

\* The crawler of s fetches the next request and the page does not load,
\* also when retried: the request is marked handled, requestHandler never
\* ran for it.
RequestFails(s) ==
  /\ At(s, "crawler_run")
  /\ \E url \in Fetchable(s) :
       /\ sessions' = (sessions \ {s}) \cup {[s EXCEPT !.handled = @ + 1]}
       /\ requestQueue' = SetState(requestQueue, url, "handled")
  /\ UNCHANGED <<jobs, http, isRunning, activeJobs, loopPc, queuedJobs, launches, exited>>

\* await crawler.run([url]) returns: no request of s is running and either
\* its budget is used up or the shared queue is finished (nothing pending,
\* nothing locked by any crawler); the done write is sent.
CrawlerRun(s) ==
  /\ At(s, "crawler_run")
  /\ s.running = {}
  /\ \/ s.handled >= maxRequestsPerCrawl
     \/ Known(requestQueue) = InState(requestQueue, "handled")
  /\ sessions' = Goto(s, "w_done", "none")
  /\ UNCHANGED <<jobs, requestQueue, http, isRunning, activeJobs, loopPc, queuedJobs,
                 launches, exited>>

\* crawler.run throws between two requests (the queue or the browser pool
\* failing), with or without a message; the catch block sends the error
\* write.
CrawlerRunFails(s) ==
  /\ At(s, "crawler_run")
  /\ s.running = {}
  /\ \E msg \in {"SessionError", ""} : sessions' = Goto(s, "w_error", msg)
  /\ UNCHANGED <<jobs, requestQueue, http, isRunning, activeJobs, loopPc, queuedJobs,
                 launches, exited>>

\* Mutant of DoneUpdates: pages_crawled counts the requests handled.
DoneUpdatesCountsRequests(s) ==
  [emails |-> Val(Dedupe(s.extractedEmails)),
   facebook_urls |-> Val(Dedupe(s.extractedFacebookUrls)),
   crawled_urls |-> Val(s.visitedUrls),
   pages_crawled |-> Val(s.handled)]

\* The results of the done write.
DoneUpdates(s) ==
  [emails |-> Val(Dedupe(s.extractedEmails)),
   facebook_urls |-> Val(Dedupe(s.extractedFacebookUrls)),
   crawled_urls |-> Val(s.visitedUrls),
   pages_crawled |-> Val(Len(s.visitedUrls))]

\* The done write succeeds; processJob returns.
WriteDone(s) ==
  /\ At(s, "w_done")
  /\ jobs' = updateJobStatus(s.job, "done", DoneUpdates(s))
  /\ Settle(s, FALSE)
  /\ UNCHANGED <<requestQueue, http, isRunning, queuedJobs, launches, exited>>

\* The done write throws inside the try: the catch block sends the error write.
WriteDoneFails(s) ==
  /\ At(s, "w_done")
  /\ sessions' = Goto(s, "w_error", "StoreError")
  /\ UNCHANGED <<jobs, requestQueue, http, isRunning, activeJobs, loopPc, queuedJobs,
                 launches, exited>>

\* Mutant of ErrorMessage: error.message as it is.
ErrorMessageRaw(msg) == msg

\* error.message || 'Unknown error occurred'
ErrorMessage(msg) == IF msg = "" THEN "Unknown error occurred" ELSE msg

\* Mutant of ErrorUpdates: the catch block writes the accumulators too.
ErrorUpdatesWithResults(s) ==
  [error |-> ErrorMessage(s.err)] @@ DoneUpdates(s)

\* The fields of the error write: the message and nothing else; the
\* accumulators are local to the try block.
ErrorUpdates(s) == [error |-> ErrorMessage(s.err)]

\* The error write succeeds; processJob returns.
WriteError(s) ==
  /\ At(s, "w_error")
  /\ jobs' = updateJobStatus(s.job, "error", ErrorUpdates(s))
  /\ Settle(s, FALSE)
  /\ UNCHANGED <<requestQueue, http, isRunning, queuedJobs, launches, exited>>

\* The error write throws inside the catch block: processJob rejects.
WriteErrorFails(s) ==
  /\ At(s, "w_error")
  /\ Settle(s, TRUE)
  /\ UNCHANGED <<jobs, requestQueue, http, isRunning, queuedJobs, launches, exited>>

\* ---- specifications -------------------------------------------------------------

\* A step of a poll loop or of a session in flight, on a site none of whose
\* pages loads: requestHandler is never called.
Work ==
  \/ \E l \in Loops : StoreSelect(l)
  \/ \E l \in Loops : StoreSelectFails(l)
  \/ \E l \in Loops : HandleBatch(l)
  \/ \E l \in Loops : Wake(l)
  \/ \E s \in sessions : MarkProcessing(s)
  \/ \E s \in sessions : MarkProcessingFails(s)
  \/ \E s \in sessions : RequestFails(s)
  \/ \E s \in sessions : CrawlerRun(s)
  \/ \E s \in sessions : CrawlerRunFails(s)
  \/ \E s \in sessions : WriteDone(s)
  \/ \E s \in sessions : WriteDoneFails(s)
  \/ \E s \in sessions : WriteError(s)
  \/ \E s \in sessions : WriteErrorFails(s)

\* The server as startServer runs it: start() is called there, stop() only
\* by the signal handlers, which exit the process.
Next ==
  \/ Submit(MaxJobs)
  \/ Start
  \/ Signal
  \/ Work

Spec == Init /\ [][Next]_vars

\* The JobWorker under any sequence of start() and stop() calls.
PoolNext ==
  \/ Submit(MaxPoolJobs)
  \/ Start
  \/ Stop
  \/ Signal
  \/ Work

PoolSpec == Init /\ [][PoolNext]_vars

\* The server while the pool runs, the store answers every request and
\* every crawler.run returns or throws: the event loop runs each callback
\* that is ready, so each step that stays possible is eventually taken.
LiveNext ==
  \/ Submit(MaxJobs)
  \/ Start
  \/ \E l \in Loops : StoreSelect(l)
  \/ \E l \in Loops : HandleBatch(l)
  \/ \E l \in Loops : Wake(l)
  \/ \E s \in sessions : MarkProcessing(s)
  \/ \E s \in sessions : RequestFails(s)
  \/ \E s \in sessions : CrawlerRun(s)
  \/ \E s \in sessions : CrawlerRunFails(s)
  \/ \E s \in sessions : WriteDone(s)
  \/ \E s \in sessions : WriteError(s)

Fairness ==
  /\ WF_vars(\E l \in Loops : StoreSelect(l))
  /\ WF_vars(\E l \in Loops : HandleBatch(l))
  /\ WF_vars(\E l \in Loops : Wake(l))
  /\ WF_vars(\E s \in sessions : MarkProcessing(s))
  /\ WF_vars(\E s \in sessions : RequestFails(s) \/ CrawlerRun(s) \/ CrawlerRunFails(s))
  /\ WF_vars(\E s \in sessions : WriteDone(s))
  /\ WF_vars(\E s \in sessions : WriteError(s))

LiveSpec == Init /\ [][LiveNext]_vars /\ Fairness

\* The server followed page by page: pages load or fail, reading a page may
\* throw, the store and crawler.run may fail.
CrawlNext ==
  \/ Submit(MaxCrawlJobs)
  \/ Start
  \/ Signal
  \/ Work
  \/ \E s \in sessions : FetchRequest(s, Htmls, Htmls)
  \/ \E s \in sessions : RequestHandler(s)

CrawlSpec == Init /\ [][CrawlNext]_vars

\* A step of a poll loop or of a session while the store answers and
\* crawler.run does not throw; pages load, with the contents given, or fail.
Visit(seedHtmls, otherHtmls) ==
  \/ \E l \in Loops : StoreSelect(l)
  \/ \E l \in Loops : HandleBatch(l)
  \/ \E l \in Loops : Wake(l)
  \/ \E s \in sessions : MarkProcessing(s)
  \/ \E s \in sessions : FetchRequest(s, seedHtmls, otherHtmls)
  \/ \E s \in sessions : RequestHandler(s)
  \/ \E s \in sessions : RequestFails(s)
  \/ \E s \in sessions : CrawlerRun(s)
  \/ \E s \in sessions : WriteDone(s)

\* Link discovery followed over two sites, pages without addresses.
LinkNext ==
  \/ SubmitSeed({"https://a.example/", "https://b.example/"}, MaxLinkJobs)
  \/ Start
  \/ Visit({<<>>}, {<<>>})

LinkSpec == Init /\ [][LinkNext]_vars

\* The crawl of a site with more pages than the page budget.
BudgetNext ==
  \/ SubmitSeed({"https://c.example/"}, MaxBudgetJobs)
  \/ Start
  \/ Visit({<<>>}, {<<>>})

BudgetSpec == Init /\ [][BudgetNext]_vars

\* The ways the model writes a facebook link: lower-case and upper-case
\* scheme or none, www. or not, and paths: none, a one-letter segment, skip
\* patterns in lower and upper case, a profile.
Links ==
  {Link(scheme, www, segments) :
     scheme \in {"", "https://", "HTTPS://"}, www \in {"", "www."},
     segments \in {<<>>, <<"a">>, <<"login">>, <<"Login">>, <<"HELP", "faq">>,
                   <<"acme.page">>}}

\* Page contents with one or two facebook links, or an address and a link.
Contents ==
  {<<Facebook(x)>> : x \in Links}
    \cup {<<Facebook(x), Facebook(y)>> : x, y \in Links}
    \cup {<<Text("a@x.com"), Facebook(x)>> : x \in Links}

\* The extractors followed over the contents of a seed page.
ExtractNext ==
  \/ SubmitSeed({"https://a.example/"}, MaxExtractJobs)
  \/ Start
  \/ Visit(Contents, {<<>>})

ExtractSpec == Init /\ [][ExtractNext]_vars

\* The server with the exchanges of one client followed.
ApiNext ==
  \/ TracedSubmit(MaxApiJobs)
  \/ Poll
  \/ Health
  \/ Start
  \/ Work

ApiSpec == Init /\ [][ApiNext]_vars

\* ---- claims ---------------------------------------------------------------------

Terminal == {"done", "error"}

\* A status change that does not go back: queued may become anything,
\* processing anything but queued, done and error nothing else.
Forward(a, b) ==
  CASE a = "queued" -> TRUE
    [] a = "processing" -> b # "queued"
    [] OTHER -> b = a

\* C1: the stored status of a job never moves to an earlier state: once
\* processing it is never queued again, once done or error it never changes.
C1_StatusForwardOnly ==
  [][\A j \in DOMAIN jobs : Forward(jobs[j].status, jobs'[j].status)]_vars

\* C2: no job goes from queued straight to done or error; a terminal status
\* is only ever written over processing, also when a store write fails.
C2_NoTerminalFromQueued ==
  [][\A j \in DOMAIN jobs :
       ~(jobs[j].status = "queued" /\ jobs'[j].status \in Terminal)]_vars

\* C3: at no instant are two sessions in flight for the same job_id, and the
\* ids of the sessions in flight are exactly the active set.
C3_OneSessionPerJob ==
  /\ \A s, t \in sessions : s.job = t.job => s = t
  /\ activeJobs = {s.job : s \in sessions}

\* C3 witness: the answer of a select is about to be handled and a row of its
\* slice is a job whose session (launched by an earlier cycle) is in flight.
C3_Witness ==
  \E l \in Loops :
    /\ loopPc[l] = "selected"
    /\ \E k \in 1..Len(Slice(queuedJobs[l])) : queuedJobs[l][k].job_id \in activeJobs

\* C4 as claimed: every id in the active set has stored status processing.
C4_ActiveIsProcessing ==
  \A j \in activeJobs : jobs[j].status = "processing"

\* The processing write of session s has been applied and no terminal write
\* of s has: s is crawling, or waits for the done write, or for the error
\* write after a failed crawl.
Marked(s) ==
  \/ s.pc \in {"crawler_run", "w_done"}
  \/ s.pc = "w_error" /\ s.err # "StoreError"

\* C4 amended: an id in the active set has stored status processing from the
\* moment the processing write of its session is applied until a terminal
\* write of that session is applied.
C4_MarkedIsProcessing ==
  \A s \in sessions :
    Marked(s) => s.job \in activeJobs /\ jobs[s.job].status = "processing"

\* C4 witness: a session is crawling and another id of the active set is
\* still queued, its processing write not yet applied.
C4_Witness ==
  \E s, t \in sessions :
    /\ s.pc = "crawler_run" /\ jobs[s.job].status = "processing"
    /\ t.pc = "w_processing" /\ jobs[t.job].status = "queued"

\* The stored status of job_id j, "none" while no row has that id.
StatusOf(j) == IF j \in DOMAIN jobs THEN jobs[j].status ELSE "none"

\* C5: while the pool runs, the store answers and every session terminates,
\* every queued job is eventually claimed and eventually done or error.
C5_QueuedReachesTerminal ==
  \A j \in 1..MaxJobs :
    /\ (isRunning /\ StatusOf(j) = "queued") ~> (launches[j] > 0)
    /\ (isRunning /\ StatusOf(j) = "queued") ~> (StatusOf(j) \in Terminal)

\* C5 witness: more jobs were queued than one cycle takes, and every one of
\* them has been claimed once and is done or error.
C5_Witness ==
  /\ isRunning
  /\ Len(jobs) > WORKER_BATCH_SIZE
  /\ \A j \in DOMAIN jobs : launches[j] = 1 /\ jobs[j].status \in Terminal

\* C6: the number of sessions running at the same instant, the size of the
\* active set, never exceeds MAX_CONCURRENT_WORKERS.
C6_ActiveBounded == Cardinality(activeJobs) <= MAX_CONCURRENT_WORKERS

\* C7: a poll cycle fetches at most WORKER_BATCH_SIZE rows and launches at
\* most MAX_CONCURRENT_WORKERS sessions (all launches of a cycle are one step).
C7_CycleCaps ==
  [][/\ \A l \in Loops : Len(queuedJobs'[l]) <= WORKER_BATCH_SIZE
     /\ Launched(launches') - Launched(launches) <= MAX_CONCURRENT_WORKERS]_vars

\* C7 witness: a cycle has launched MAX_CONCURRENT_WORKERS sessions, none of
\* them marked yet, while more rows are queued than a select returns.
C7_Witness ==
  \E l \in Loops :
    /\ loopPc[l] = "await_all"
    /\ Cardinality({s \in sessions : s.owner = l /\ s.pc = "w_processing"})
         = MAX_CONCURRENT_WORKERS
    /\ Cardinality({j \in DOMAIN jobs : jobs[j].status = "queued"}) > WORKER_BATCH_SIZE

\* C8: when a cycle claims job J, every queued job created before J that is
\* not already in the active set is claimed in the same cycle.
C8_OldestFirst ==
  [][\A J \in activeJobs' \ activeJobs : \A K \in DOMAIN jobs :
       (/\ jobs[K].status = "queued"
        /\ jobs[K].created_at < jobs[J].created_at
        /\ K \notin activeJobs) => K \in activeJobs']_vars

\* C8 witness: a cycle has claimed two jobs, the older and the newer one, and
\* left a queued job created after both for a later cycle.
C8_Witness ==
  \E l \in Loops : \E s, t \in sessions : \E j \in DOMAIN jobs :
    /\ loopPc[l] = "await_all"
    /\ s.owner = l /\ t.owner = l /\ s.pc = "w_processing" /\ t.pc = "w_processing"
    /\ jobs[s.job].created_at < jobs[t.job].created_at
    /\ jobs[t.job].created_at < jobs[j].created_at
    /\ jobs[j].status = "queued" /\ j \notin activeJobs

\* The poll loops that have not returned.
LiveLoops == {l \in Loops : loopPc[l] # "idle"}

\* C9: the pool is stopped or running; while it runs a poll loop executes;
\* start() while running starts no further loop; a loop never returns while
\* the pool stays running, whatever errors its cycles hit; only stop() (or
\* the exit of the process) ends running.
C9_PoolStates ==
  [][/\ isRunning \in BOOLEAN /\ isRunning' \in BOOLEAN
     /\ (isRunning' => LiveLoops' # {})
     /\ (isRunning /\ ~exited' => LiveLoops' = LiveLoops)
     /\ (isRunning /\ ~isRunning' =>
           exited' \/ UNCHANGED <<jobs, activeJobs, loopPc, queuedJobs, sessions, launches>>)
    ]_vars

\* C9 witness: a cycle has hit errors (both writes of a session failed, its
\* job is queued and released again) and the loop sleeps, the pool running.
C9_Witness ==
  /\ isRunning
  /\ \E l \in Loops : loopPc[l] = "sleep"
  /\ \E j \in DOMAIN jobs : launches[j] > 0 /\ jobs[j].status = "queued" /\ j \notin activeJobs

\* C10: after stop() no new session is launched by the pool.
C10_NoLaunchAfterStop ==
  [][~isRunning => Launched(launches') = Launched(launches)]_vars

\* The result columns of a row.
Results(row) == <<row.emails, row.facebook_urls, row.crawled_urls, row.pages_crawled>>

\* seq has no element twice.
NoDuplicates(seq) == \A a, b \in 1..Len(seq) : seq[a] = seq[b] => a = b

\* Job j gets status st in this step.
Becomes(j, st) == jobs'[j].status = st /\ jobs'[j] # jobs[j]

\* C11: the done write of a session stores the emails and facebook urls it
\* accumulated, each once, and the urls it visited; in every done row
\* crawled_urls has no duplicate and pages_crawled is its length.
C11_DoneCarriesResults ==
  [][\A j \in DOMAIN jobs :
       /\ Becomes(j, "done") =>
            \E s \in sessions :
              /\ s.job = j /\ s.pc = "w_done"
              /\ Range(jobs'[j].emails[1]) = Range(s.extractedEmails)
              /\ NoDuplicates(jobs'[j].emails[1])
              /\ Range(jobs'[j].facebook_urls[1]) = Range(s.extractedFacebookUrls)
              /\ NoDuplicates(jobs'[j].facebook_urls[1])
              /\ jobs'[j].crawled_urls = Val(s.visitedUrls)
       /\ jobs'[j].status = "done" =>
            /\ NoDuplicates(jobs'[j].crawled_urls[1])
            /\ jobs'[j].pages_crawled = Val(Len(jobs'[j].crawled_urls[1]))]_vars

\* C11 witness: both requests of the queue are handled and a job is done
\* whose session visited one page, with an address found on it.
C11_Witness ==
  \E j \in DOMAIN jobs :
    /\ jobs[j].status = "done"
    /\ jobs[j].pages_crawled = Val(1)
    /\ jobs[j].emails # Val(<<>>)
    /\ Len(requestQueue) = 2
    /\ Known(requestQueue) = InState(requestQueue, "handled")

\* C12: a row with status error has a non-empty error message; when the
\* first session of a job fails having visited no page, the poll of the job
\* shows status error, a non-empty error, no emails and pages_crawled 0.
C12_ErrorHasMessage ==
  [][\A j \in DOMAIN jobs :
       /\ jobs'[j].status = "error" => jobs'[j].error \notin {"null", ""}
       /\ \A s \in sessions :
            (s.job = j /\ s.call = 1 /\ s.visitedUrls = <<>> /\ Becomes(j, "error")) =>
              LET r == GetResponse(jobs', j, TRUE)
              IN /\ r.code = 200 /\ r.body.status = "error"
                 /\ r.body.error \notin {"null", ""}
                 /\ r.body.emails = <<>> /\ r.body.pages_crawled = 0]_vars

\* C12 witness: crawler.run threw without a message before any request was
\* fetched, and the job is error with the fallback message.
C12_Witness ==
  \E j \in DOMAIN jobs :
    /\ jobs[j].status = "error" /\ jobs[j].error = "Unknown error occurred"
    /\ launches[j] = 1
    /\ InState(requestQueue, "handled") = {}

\* A session that failed after having visited pages writes error for job j.
FailsAfterVisits(s, j) ==
  s.job = j /\ s.pc = "w_error" /\ s.visitedUrls # <<>> /\ Becomes(j, "error")

C14_StatusTimestamps ==
  \A j \in DOMAIN jobs :
    /\ jobs[j].status = "done" => jobs[j].error = "null" /\ jobs[j].completed_at = "set"
    /\ jobs[j].status = "error" => jobs[j].completed_at = "set"
    /\ jobs[j].status = "processing" => jobs[j].started_at = "set"
    /\ jobs[j].status = "queued" =>
         jobs[j].started_at = "null" /\ jobs[j].completed_at = "null"

\* C15: once a job has been done or error (completed_at is stamped by
\* exactly the writes that make a job terminal and is never cleared), no
\* step writes its result columns or its error.
C15_TerminalFrozen ==
  [][\A j \in DOMAIN jobs :
       jobs[j].completed_at = "set" =>
         Results(jobs'[j]) = Results(jobs[j]) /\ jobs'[j].error = jobs[j].error]_vars

\* C16: a job becomes error only by the error write of a session whose
\* crawler.run threw; no step else makes a job error.
C16_ErrorOnlyOnSessionFailure ==
  [][\A j \in DOMAIN jobs :
       Becomes(j, "error") =>
         \E s \in sessions : s.job = j /\ s.pc = "w_error" /\ s.err # "StoreError"]_vars

\* The followed client got the answer to a new request in this step.
Answered(op) == http'.seq # http.seq /\ http'.op = op

\* C17: a submit answered 200 has added exactly one row, queued, under the
\* id of the answer, which no row had before; every row is found by getJob
\* when the store answers, and a poll of an issued id answered 200 shows
\* that row.
C17_SubmitCreatesOne ==
  [][/\ (Answered("submit") /\ http'.code = 200) =>
          /\ Len(jobs') = Len(jobs) + 1
          /\ SubSeq(jobs', 1, Len(jobs)) = jobs
          /\ jobs'[Len(jobs')].status = "queued"
          /\ jobs'[Len(jobs')].job_id = http'.body.job_id
          /\ \A i \in DOMAIN jobs : jobs[i].job_id # http'.body.job_id
          /\ GetResponse(jobs', http'.body.job_id, TRUE).code = 200
     /\ \A i \in DOMAIN jobs' :
          LET job == getJob(jobs', jobs'[i].job_id, TRUE)
          IN ~job.thrown /\ job.data = jobs'[i]
     /\ (Answered("poll") /\ http'.code = 200) =>
          \E i \in DOMAIN jobs :
            jobs[i].job_id = http'.arg.jobId /\ http'.body = Snapshot(jobs[i])]_vars

\* C17 witness: two submits were answered 200 and a poll of the second id
\* has found its record, still queued.
C17_Witness ==
  /\ http.op = "poll" /\ http.code = 200
  /\ Len(jobs) = 2 /\ http.body.job_id = 2 /\ http.body.status = "queued"

\* The request bodies without a well-formed url.
Malformed == {"", "not a url"}

\* C18: a submit without a url or with a malformed one is answered 400 and
\* changes neither the table nor the request queue.
C18_BadUrlRejected ==
  [][(Answered("submit") /\ http'.arg.url \in Malformed) =>
       /\ http'.code = 400
       /\ jobs' = jobs
       /\ requestQueue' = requestQueue]_vars

\* C18 witness: a malformed url was answered 400 with a row in the table
\* and its request in the queue.
C18_Witness ==
  /\ http.op = "submit" /\ http.arg.url = "not a url" /\ http.code = 400
  /\ Len(jobs) = 1
  /\ InState(requestQueue, "pending") # {}

\* C19: a poll of an id that was never issued is answered 404, which no
\* failure of the store is.
C19_UnknownIdNotFound ==
  (http.op = "poll" /\ http.arg.jobId = UnknownId) =>
     /\ http.code = 404
     /\ http.code # GetResponse(jobs, UnknownId, FALSE).code

\* C20: a job with status error keeps it and is not claimed again, and no
\* step changes retry_count or max_retries.
C20_NoRetry ==
  [][\A j \in DOMAIN jobs :
       /\ jobs[j].status = "error" =>
            jobs'[j].status = "error" /\ launches'[j] = launches[j]
       /\ jobs'[j].retry_count = jobs[j].retry_count
       /\ jobs'[j].max_retries = jobs[j].max_retries]_vars

\* Session t of the next state is session s (the same processJob call).
Same(s, t) == t.job = s.job /\ t.call = s.call

\* requestHandler returns in this step for the request ctx of session s.
Returns(s, ctx) ==
  ctx \in s.running /\ \E t \in sessions' : Same(s, t) /\ ctx \notin t.running

\* Session s as the step leaves it.
Later(s) == CHOOSE t \in sessions' : Same(s, t)

\* What a step pushed to an accumulator.
Pushed(before, after) == SubSeq(after, Len(before) + 1, Len(after))

\* C21: a page visit pushes facebook urls only when email extraction on
\* the content of that page returns no address, and whenever it pushes
\* addresses it pushes no facebook url; the policy is per page, pages
\* visited before do not count.
C21_FacebookOnlyWithoutEmails ==
  [][\A s \in sessions : \A ctx \in s.running :
       Returns(s, ctx) =>
         LET emails == Pushed(s.extractedEmails, Later(s).extractedEmails)
             facebookUrls == Pushed(s.extractedFacebookUrls,
                                    Later(s).extractedFacebookUrls)
         IN /\ facebookUrls # <<>> => extractEmails(ctx.html) = <<>>
            /\ emails # <<>> => facebookUrls = <<>>]_vars

\* C21 witness: a job is done with an address from one page and a facebook
\* url from the other.
C21_Witness ==
  \E j \in DOMAIN jobs :
    /\ jobs[j].status = "done" /\ jobs[j].pages_crawled = Val(2)
    /\ jobs[j].emails # Val(<<>>) /\ jobs[j].facebook_urls # Val(<<>>)

\* C22: every url a session has visited, and so every entry of crawled_urls
\* of a job, is of the site of the seed of that job, also when jobs with
\* seeds of different sites are processed at the same time.
C22_VisitsStayInDomain ==
  /\ \A s \in sessions : \A u \in Range(s.visitedUrls) : Origin(u) = Origin(s.url)
  /\ \A j \in DOMAIN jobs :
       jobs[j].crawled_urls # Null =>
         \A u \in Range(jobs[j].crawled_urls[1]) : Origin(u) = Origin(jobs[j].url)

\* The urls a session, and the pages a job, may count at most.
AtMost(n) ==
  /\ \A s \in sessions : Len(s.visitedUrls) <= n
  /\ \A j \in DOMAIN jobs : jobs[j].pages_crawled # Null => jobs[j].pages_crawled[1] <= n

Fixed(row) == <<row.job_id, row.url, row.created_at, row.retry_count, row.max_retries>>

\* C24: no step changes the job_id or the url of a row (nor any column but
\* status, the result columns, error, started_at and completed_at), no row
\* is removed, and the poll and health handlers write nothing.
C24_IdAndUrlFixed ==
  [][/\ \A j \in DOMAIN jobs : j \in DOMAIN jobs' /\ Fixed(jobs'[j]) = Fixed(jobs[j])
     /\ (Answered("poll") \/ Answered("health")) =>
          UNCHANGED <<jobs, requestQueue, isRunning, activeJobs, sessions>>]_vars

\* C24 witness: the health handler has answered with a session in flight,
\* one job done and the other processing.
C24_Witness ==
  /\ http.op = "health" /\ http.body.active_jobs = 1
  /\ \E j, k \in DOMAIN jobs : jobs[j].status = "done" /\ jobs[k].status = "processing"

\* The text url starts with the host: neither a scheme nor www. before it.
Normalized(url) == SubSeq(url, 1, Len("facebook.com")) = "facebook.com"

\* The facebook urls the step pushed for session s.
PushedUrls(s) == Pushed(s.extractedFacebookUrls, Later(s).extractedFacebookUrls)

\* C25 as claimed: the urls extractFacebookUrls returns for a page carry
\* neither scheme nor www. and none is returned twice, so the places of a
\* page that write the same path give one entry.
C25_UrlsNormalized ==
  [][\A s \in sessions : \A ctx \in s.running :
       Returns(s, ctx) =>
         /\ NoDuplicates(PushedUrls(s))
         /\ \A url \in Range(PushedUrls(s)) : Normalized(url)
         /\ \A x, y \in Range(Written(ctx.html)) :
              (Href(x) \in Range(PushedUrls(s)) /\ Href(y) \in Range(PushedUrls(s))
               /\ x.segments = y.segments) => x = y]_vars

\* The non-profile keywords of the claim, in the spellings the model writes.
Keywords == {"login", "Login", "help", "HELP", "privacy", "terms", "settings"}

\* A link with a lower-case scheme or none whose first segment has two
\* characters or more and is no keyword.
ProfileShaped(link) ==
  /\ link.scheme \in {"", "http://", "https://"}
  /\ link.segments # <<>>
  /\ Len(link.segments[1]) >= 2
  /\ link.segments[1] \notin Keywords

Rejects(s) ==
  s.pc = "w_error" /\ ~exited' /\ jobs' = jobs /\ \A t \in sessions' : ~Same(s, t)

\* C28: a cycle that hits an error (the select fails, or a session the
\* cycle waits for rejects) is followed by the backoff wait, not by the
\* normal one.
C28_ErrorBacksOff ==
  [][\A l \in Loops :
       (\/ loopPc[l] = "select" /\ loopPc'[l] \notin {"select", "selected"} /\ ~exited'
        \/ \E s \in sessions : s.owner = l /\ Rejects(s))
         => loopPc'[l] = "backoff"]_vars

\* C29: when the loop goes to its wait after a cycle that launched
\* sessions, every session of the cycle has settled and its id is out of
\* the active set; and the active set is empty whenever no session is in
\* flight.
C29_WaitAfterAllSettled ==
  [][/\ \A l \in Loops :
          (loopPc[l] = "await_all" /\ loopPc'[l] \in {"sleep", "backoff"}) =>
            \A s \in sessions :
              s.owner = l => s.job \notin activeJobs' /\ \A t \in sessions' : ~Same(s, t)
     /\ sessions' = {} => activeJobs' = {}]_vars

\* The place of the request of url in queue.
Position(queue, url) == CHOOSE k \in 1..Len(queue) : queue[k].url = url

\* The first limit urls of urls that are of the site of the page url.
Candidates(url, urls, limit) ==
  Range(Take(SelectSeq(urls, LAMBDA u : Origin(u) = Origin(url)), limit))

\* The tier-1 candidates of a page (navigation links and fixed paths, cap
\* NavLimit) and its tier-2 candidates (its anchors, cap FallbackLimit).
Tier1(url) == Candidates(url, NavLinks(url), NavLimit)
Tier2(url) == Candidates(url, Site(url).anchors, FallbackLimit)

\* The urls the step adds to the queue.
Added == Known(requestQueue') \ Known(requestQueue)

\* Every tier-1 candidate of the page is in the queue after the step, and
\* those the step adds stand before the other urls it adds.
Tier1First(url) ==
  /\ Tier1(url) \subseteq Known(requestQueue')
  /\ \A u \in Added \cap Tier1(url) : \A v \in Added \ Tier1(url) :
       Position(requestQueue', u) < Position(requestQueue', v)

\* C30 as claimed: the visit of a page, rendered or raw, enqueues the
\* tier-1 candidates of the page before its tier-2 candidates, and nothing
\* else.
C30_TiersInOrder ==
  [][\A s \in sessions : \A ctx \in s.running :
       Returns(s, ctx) =>
         /\ Added \subseteq Tier1(ctx.url) \cup Tier2(ctx.url)
         /\ Tier2(ctx.url) \subseteq Known(requestQueue')
         /\ Tier1First(ctx.url)]_vars

\* C30 amended: the visit of a rendered page enqueues its tier-1
\* candidates before its tier-2 candidates, unless collecting the
\* navigation links throws; then, and at the visit of a page with raw
\* content, only the tier-2 candidates are enqueued.
C30_TiersWhenRendered ==
  [][\A s \in sessions : \A ctx \in s.running :
       Returns(s, ctx) =>
         /\ Added \subseteq Tier1(ctx.url) \cup Tier2(ctx.url)
         /\ Tier2(ctx.url) \subseteq Known(requestQueue')
         /\ ctx.kind = "page" => Tier1First(ctx.url) \/ Added \subseteq Tier2(ctx.url)
         /\ ctx.kind = "response" => Added \subseteq Tier2(ctx.url)]_vars

\* C30 witness: the seed of b.example has been visited rendered: the fixed
\* path (tier 1 only) stands in the queue before the blog page (tier 2
\* only).
C30_Witness ==
  /\ {"https://b.example/about/", "https://b.example/blog"} \subseteq Known(requestQueue)
  /\ Position(requestQueue, "https://b.example/about/")
       < Position(requestQueue, "https://b.example/blog")
  /\ "https://b.example/" \in InState(requestQueue, "handled")

\* C31: in one pool instance at most one poll loop is executing at any
\* instant, for every sequence of start() and stop() calls, a stop() followed
\* by a start() while the earlier loop still sleeps or awaits a cycle included.
C31_OneLoopAtATime == Cardinality(LiveLoops) <= 1

\* The urls the visits of session s have enqueued, or would have had the
\* queue not known them: the candidates of the pages it has visited.
Found(s) == UNION {Tier1(p) \cup Tier2(p) : p \in Range(s.visitedUrls)}

\* The request of url was enqueued for the job of session s: as its seed, or
\* from a page its session visited.
EnqueuedFor(s, url) == url = s.url \/ url \in Found(s)

\* The crawler of session s fetches the request of url in this step.
Takes(s, url) ==
  /\ url \in InState(requestQueue, "pending") \ InState(requestQueue', "pending")
  /\ \E t \in sessions' : Same(s, t) /\ t # s

\* A session only takes requests enqueued for its own job.
OwnRequestsOnly ==
  \A s \in sessions : \A url \in Known(requestQueue) :
    Takes(s, url) => EnqueuedFor(s, url)

\* crawler.run of a session returns only after the session has visited its
\* seed, or has taken a request whose page did not load.
OwnSeedVisited ==
  \A s \in sessions :
    (s.pc = "crawler_run" /\ \E t \in sessions' : Same(s, t) /\ t.pc = "w_done") =>
      s.url \in Range(s.visitedUrls) \/ s.handled > Len(s.visitedUrls)

\* C32: sessions of different jobs do not interfere: a request enqueued for
\* one job (its seed at submit time, or a link its session discovered) is
\* never taken by the session of another job, and the session of every job
\* visits the seed of its job, also when a job with the same seed was
\* submitted or processed before.
C32_SessionsDoNotInterfere == [][OwnRequestsOnly /\ OwnSeedVisited]_vars

\* C33: submit is all-or-nothing: a submit answered with a failure (400 or
\* 500) has left no record in the store, so the pool never processes a job
\* whose id no caller was given.
C33_SubmitAllOrNothing ==
  [][(Answered("submit") /\ http'.code # 200) => jobs' = jobs]_vars

\* C34: over the lifetime of one pool instance at most one session is ever
\* launched for a job id: a job claimed once is never claimed again in a
\* later cycle, also when the store writes of its first session failed.
C34_ClaimedOnce == \A j \in 1..MaxJobs : launches[j] <= 1
====
